---- MODULE Spec2Model ----
(***************************************************************************)
(* Event-consumption pipeline of the auction service: the RabbitMQ        *)
(* consumer (infra/rabbitmq/consumer.go), the bid event handler           *)
(* (package consumers), the item domain rules (domain.Item) and the       *)
(* item write path of the Postgres repository (PgRepository.Update).      *)
(* Times are whole minutes; decimal amounts are whole numbers.            *)
(***************************************************************************)
EXTENDS Integers, Sequences, FiniteSets, TLC

VARIABLES
    config,     \* rabbitmq.ConsumerConfig handed to NewConsumer by the worker
    pool,       \* the messages the bid service may publish in this run
    broker,     \* exchanges, queues (with arguments) and bindings on the broker
    queues,     \* queue name -> sequence of delivery ids held by that queue
    stream,     \* replica -> deliveries pushed to its consumer, not yet taken
    msgs,       \* delivery id -> the published message (NoMsg before publish)
    rpc,        \* replica -> position of the worker process
    h,          \* delivery id -> state of its handleMessage invocation
    items,      \* items table: item id -> row
    faults,     \* repository failures of the run: how many are left, and their errors
    writeSeq    \* item id -> number of UPDATE statements applied to the row

vars == <<config, pool, broker, queues, stream, msgs, rpc, h, items, faults, writeSeq>>

-----------------------------------------------------------------------------
\* Bounds of the model

MaxDeliveries == 2
MaxFaults == 1
MaxVersion == 2

Replicas == {"w1", "w2"}
Ids == 1..MaxDeliveries

-----------------------------------------------------------------------------
\* Program constants

DefaultExtensionThresholdMinutes == 10
DefaultExtensionDurationMinutes == 5
maxRetries == 3
DefaultPrefetch == 10
DialAttempts == 5
PrefetchCount == 10
WorkerPoolSize == 20


Exchange == "auction.bid"
QueueName == "auction.bid.all.v1"
RoutingKeys == {<<"bid", "*", "v1">>}
dlxName == "auction.bid.dlx"
dlqName == "auction.bid.all.v1.dlq"

-----------------------------------------------------------------------------
\* Nullable columns (*int, *decimal.Decimal, *string)

Nil == [set |-> FALSE, val |-> 0]
Some(v) == [set |-> TRUE, val |-> v]
NoBuyer == "<nil>"

\* domain.Item, the columns this pipeline reads or writes
Item(price, endDate, thr, dur) ==
    [ID |-> "I1", CurrentPrice |-> price, EndPrice |-> Nil, EndDate |-> endDate,
     Status |-> "active", BuyerID |-> NoBuyer, Version |-> 1,
     ExtensionThresholdMinutes |-> thr, ExtensionDurationMinutes |-> dur]

NoItem == Item(0, 0, Nil, Nil)

\* variant: a set override is taken whatever its sign
GetExtensionThresholdUnchecked(i) ==
    IF i.ExtensionThresholdMinutes.set
    THEN i.ExtensionThresholdMinutes.val
    ELSE DefaultExtensionThresholdMinutes

GetExtensionThreshold(i) ==
    IF i.ExtensionThresholdMinutes.set /\ i.ExtensionThresholdMinutes.val > 0
    THEN i.ExtensionThresholdMinutes.val
    ELSE DefaultExtensionThresholdMinutes

GetExtensionDuration(i) ==
    IF i.ExtensionDurationMinutes.set /\ i.ExtensionDurationMinutes.val > 0
    THEN i.ExtensionDurationMinutes.val
    ELSE DefaultExtensionDurationMinutes

\* variant: any bid before the end extends, however early
ShouldExtendBeforeEnd(i, bidTime) == i.EndDate - bidTime > 0

\* variant: the remaining time is only compared with the threshold
ShouldExtendWithinThreshold(i, bidTime) == i.EndDate - bidTime <= GetExtensionThreshold(i)

ShouldExtendForBid(i, bidTime) ==
    LET timeUntilEnd == i.EndDate - bidTime
        threshold == GetExtensionThreshold(i)
    IN  timeUntilEnd > 0 /\ timeUntilEnd <= threshold

\* variant: the extension is taken from the threshold setting
CalculateNewEndDateByThreshold(i) == i.EndDate + GetExtensionThreshold(i)

CalculateNewEndDate(i) == i.EndDate + GetExtensionDuration(i)

-----------------------------------------------------------------------------
\* decimal.NewFromString on the amounts that occur: ok is FALSE for text that
\* is no decimal number

NewFromString(s) ==
    CASE s = "100" -> [ok |-> TRUE, val |-> 100]
      [] s = "120" -> [ok |-> TRUE, val |-> 120]
      [] s = "150" -> [ok |-> TRUE, val |-> 150]
      [] s = "150.00" -> [ok |-> TRUE, val |-> 150]
      [] s = "200" -> [ok |-> TRUE, val |-> 200]
      [] OTHER -> [ok |-> FALSE, val |-> 0]

-----------------------------------------------------------------------------
\* Messages on the wire. A body that is no JSON document has malformed = TRUE;
\* otherwise event/timestamp are the envelope and the remaining fields are the
\* payload keys the handler looks up ("" when the key is absent).

Msg(rk, malformed, event, ts, itemID, amount, pts, buyerID, finalAmount) ==
    [rk |-> rk, malformed |-> malformed, event |-> event, timestamp |-> ts,
     ItemID |-> itemID, Amount |-> amount, Timestamp |-> pts,
     BuyerID |-> buyerID, FinalAmount |-> finalAmount]

NoMsg == Msg(<<>>, TRUE, "", 0, "", "", Nil, "", "")

BidPlaced(itemID, amount, ts, pts) ==
    Msg(<<"bid", "placed", "v1">>, FALSE, "bid.placed", ts, itemID, amount, pts, "", "")

BidWon(itemID, buyerID, finalAmount) ==
    Msg(<<"bid", "won", "v1">>, FALSE, "bid.won", 19, itemID, "", Nil, buyerID, finalAmount)

\* payload[key].(string): the text under the key, "" when the key is absent
Lookup(payload, key) == IF key \in DOMAIN payload THEN payload[key] ELSE ""

\* time.Parse(time.RFC3339, s) in minutes on the clock of the model, where
\* 2024-01-20T10:00:00Z is minute 20; Nil when s does not parse
ParseTime(s) ==
    CASE s = "2024-01-20T09:57:00Z" -> Some(17)
      [] s = "2024-01-20T10:00:00Z" -> Some(20)
      [] s = "2024-01-20T10:05:00Z" -> Some(25)
      [] OTHER -> Nil

\* An event whose JSON payload is the given object: the handler finds what is
\* under the keys it looks up
FromPayload(rk, event, ts, payload) ==
    Msg(rk, FALSE, event, ts, Lookup(payload, "ItemID"), Lookup(payload, "Amount"),
        ParseTime(Lookup(payload, "Timestamp")), Lookup(payload, "BuyerID"),
        Lookup(payload, "FinalAmount"))

\* {"event":"bid.placed","version":"v1","payload":{"itemId":"I1",
\*  "amount":"150.00","timestamp":"2024-01-20T09:57:00Z"}}; the envelope has no
\* timestamp, which decodes to the zero time
ExampleBid ==
    FromPayload(<<"bid", "placed", "v1">>, "bid.placed", 0,
                [itemId |-> "I1", amount |-> "150.00", timestamp |-> "2024-01-20T09:57:00Z"])

\* the same bid under the keys of the handler
ExampleBidHandlerKeys ==
    FromPayload(<<"bid", "placed", "v1">>, "bid.placed", 0,
                [ItemID |-> "I1", Amount |-> "150.00", Timestamp |-> "2024-01-20T09:57:00Z"])

Garbage == Msg(<<"bid", "placed", "v1">>, TRUE, "", 0, "", "", Nil, "", "")

BidCancelled == Msg(<<"bid", "cancelled", "v1">>, FALSE, "bid.cancelled", 12, "I1", "", Nil, "", "")

ItemCreated == Msg(<<"item", "created", "v1">>, FALSE, "item.created", 12, "I1", "", Nil, "", "")

\* The messages of the pipeline runs: two bids inside the extension window of
\* the item, a closing event, an undecodable body, a bid without amount, an
\* event kind the handler does not know, and a message of another exchange
\* topic that no binding of the work queue matches.
PipelineMessages ==
    { BidPlaced("I1", "150", 15, Nil),
      BidPlaced("I1", "120", 3, Some(16)),
      BidWon("I1", "B1", "200"),
      Garbage,
      BidPlaced("I1", "", 15, Nil),
      BidCancelled,
      ItemCreated }

-----------------------------------------------------------------------------
\* Broker: topic exchanges, queues with their arguments, bindings

TopicMatch(pattern, key) ==
    /\ Len(pattern) = Len(key)
    /\ \A k \in 1..Len(pattern) : pattern[k] = "*" \/ pattern[k] = key[k]

NoBroker == [exchanges |-> {}, queues |-> {}, bindings |-> {}]

ExchangeDeclare(b, name) ==
    [b EXCEPT !.exchanges = @ \cup {[name |-> name, kind |-> "topic", durable |-> TRUE]}]

QueueDeclare(b, name, dlx) ==
    [b EXCEPT !.queues = @ \cup {[name |-> name, durable |-> TRUE, dlx |-> dlx]}]

\* variant: a name that exists cannot be declared again
DeclareAcceptedOnce(held, declared) == FALSE

\* the broker accepts the declaration of a name it holds when the declaration
\* is the one it holds (else 406 PRECONDITION_FAILED)
DeclareAccepted(held, declared) == held = declared

ExchangeRefused(b, name) ==
    \E e \in b.exchanges :
        e.name = name /\ ~DeclareAccepted(e, [name |-> name, kind |-> "topic", durable |-> TRUE])

QueueRefused(b, name, dlx) ==
    \E q \in b.queues :
        q.name = name /\ ~DeclareAccepted(q, [name |-> name, durable |-> TRUE, dlx |-> dlx])

QueueBind(b, queue, keys, exchange) ==
    [b EXCEPT !.bindings = @ \cup {[queue |-> queue, key |-> k, exchange |-> exchange] : k \in keys}]

\* the queues an exchange routes a routing key to
Route(b, exchange, rk) ==
    IF \E e \in b.exchanges : e.name = exchange
    THEN {bd.queue : bd \in {x \in b.bindings : x.exchange = exchange /\ TopicMatch(x.key, rk)}}
    ELSE {}

Enqueue(qs, targets, d) ==
    [q \in DOMAIN qs |-> IF q \in targets THEN Append(qs[q], d) ELSE qs[q]]

\* x-dead-letter-exchange of a queue ("" when the queue has none)
DeadLetterExchange(b, queue) ==
    IF \E q \in b.queues : q.name = queue
    THEN (CHOOSE q \in b.queues : q.name = queue).dlx
    ELSE ""

-----------------------------------------------------------------------------
\* Repository (PgRepository) on the items table

ItemIDs == {"I1"}

\* GetItem: SELECT items.* ... WHERE items.id = $1; no row is an error
\* (fault is the error of a failing statement, "" when the statement runs)
GetItem(table, id, fault) ==
    IF fault # ""
    THEN [err |-> fault, item |-> NoItem]
    ELSE IF id \notin DOMAIN table
         THEN [err |-> "error", item |-> NoItem]
         ELSE [err |-> "", item |-> table[id]]

\* The row after the UPDATE ... SET list of PgRepository.Update
UpdatedRow(row, item) ==
    [row EXCEPT !.CurrentPrice = item.CurrentPrice,
                !.EndPrice = item.EndPrice,
                !.EndDate = item.EndDate,
                !.Status = item.Status]

\* variant: the row is written although the statement's error is returned
UpdateAppliedOnError(table, item, fault) ==
    [err |-> fault,
     table |-> [id \in DOMAIN table |->
                   IF id = item.ID THEN UpdatedRow(table[id], item) ELSE table[id]]]

\* Update: UPDATE items SET ... WHERE id = :id; the error of the statement
Update(table, item, fault) ==
    IF fault # ""
    THEN [err |-> fault, table |-> table]
    ELSE [err |-> "",
          table |-> [id \in DOMAIN table |->
                        IF id = item.ID THEN UpdatedRow(table[id], item) ELSE table[id]]]

\* variant: every Update error is taken for a conflict
IsAnyError(err) == err # ""

\* strings.Contains(err.Error(), "optimistic lock failed")
IsOptimisticLockFailed(err) == err = "optimistic lock failed"

\* variant: a conflict is retried without an attempt cap
ShouldRetryUncapped(err, attempt) == IsOptimisticLockFailed(err)

\* the retry decision of handleBidPlaced after a failed Update
ShouldRetry(err, attempt) == IsOptimisticLockFailed(err) /\ attempt < maxRetries

-----------------------------------------------------------------------------
\* State of one handleMessage invocation, with its history

NoHandling ==
    [pc |-> "none", owner |-> "none", attempt |-> 0, item |-> NoItem,
     originalEndDate |-> 0, ret |-> "none", calls |-> 0, acks |-> 0, nacks |-> 0,
     requeued |-> 0, gets |-> 0, writes |-> 0, readSeq |-> 0, stale |-> FALSE,
     written |-> NoItem, writeNo |-> 0, log |-> <<>>, expired |-> FALSE, settleErr |-> FALSE,
     fresh |-> NoItem]

Running == {"get", "update", "returned"}

\* handler invocations of replica r that have started and not yet returned
InFlight(r) == {d \in Ids : h[d].owner = r /\ h[d].pc \in {"get", "update"}}

\* variant: only the deliveries still waiting in the channel count
UnsettledWaitingOnly(r) == Len(stream[r])

\* deliveries handed to replica r's channel and not yet settled
Unsettled(r) == Len(stream[r]) + Cardinality({d \in Ids : h[d].owner = r /\ h[d].pc \in Running})

-----------------------------------------------------------------------------
\* The runs checked: the smallest worker pool with an item that keeps the default
\* extension settings, and the worker's pool with an item that overrides both
Runs ==
    { [workerPoolSize |-> 1, thr |-> Nil, dur |-> Nil],
      [workerPoolSize |-> WorkerPoolSize, thr |-> Some(4), dur |-> Some(2)] }

\* a worker process before NewConsumer
NoConsumer ==
    [pc |-> "new", qos |-> 0, step |-> 0, err |-> "", cancelled |-> FALSE, closed |-> FALSE,
     dials |-> 0, waits |-> <<>>]

Init ==
    /\ \E run \in Runs :
         /\ config = [PrefetchCount |-> PrefetchCount, WorkerPoolSize |-> run.workerPoolSize]
         /\ items = [id \in ItemIDs |-> Item(100, 20, run.thr, run.dur)]
    /\ pool = PipelineMessages
    /\ broker = NoBroker
    /\ queues = [q \in {QueueName, dlqName} |-> <<>>]
    /\ stream = [r \in Replicas |-> <<>>]
    /\ msgs = [d \in Ids |-> NoMsg]
    /\ rpc = [r \in Replicas |-> NoConsumer]
    /\ h = [d \in Ids |-> NoHandling]
    /\ faults = [left |-> MaxFaults, errors |-> {"error"}, startup |-> {}, dial |-> {0}]
    /\ writeSeq = [id \in ItemIDs |-> 0]

\* variant: the dead-letter queue is declared but never bound to the DLX
TopologyUnboundDlq(b) ==
    LET b1 == ExchangeDeclare(b, Exchange)
        b2 == ExchangeDeclare(b1, dlxName)
        b3 == QueueDeclare(b2, QueueName, dlxName)
        b4 == QueueDeclare(b3, dlqName, "")
    IN  QueueBind(b4, QueueName, RoutingKeys, Exchange)

\* variant: the work queue is declared without arguments
TopologyPlainQueue(b) ==
    LET b1 == ExchangeDeclare(b, Exchange)
        b2 == ExchangeDeclare(b1, dlxName)
        b3 == QueueDeclare(b2, QueueName, "")
        b4 == QueueDeclare(b3, dlqName, "")
        b5 == QueueBind(b4, dlqName, RoutingKeys, dlxName)
    IN  QueueBind(b5, QueueName, RoutingKeys, Exchange)

\* NewConsumer: QoS, exchange, DLX, work queue with x-dead-letter-exchange,
\* DLQ, DLQ bindings, work queue bindings
Topology(b) ==
    LET b1 == ExchangeDeclare(b, Exchange)
        b2 == ExchangeDeclare(b1, dlxName)
        b3 == QueueDeclare(b2, QueueName, dlxName)
        b4 == QueueDeclare(b3, dlqName, "")
        b5 == QueueBind(b4, dlqName, RoutingKeys, dlxName)
    IN  QueueBind(b5, QueueName, RoutingKeys, Exchange)

Qos(prefetchCount) == IF prefetchCount = 0 THEN DefaultPrefetch ELSE prefetchCount

\* The calls NewConsumer makes on its channel, in order; each returns an error
\* or takes effect on the broker
TopologySteps == <<"qos", "exchange", "dlx", "queue", "dlq", "bindDlq", "bindQueue">>

StepDo(b, k) ==
    CASE TopologySteps[k] = "exchange" -> ExchangeDeclare(b, Exchange)
      [] TopologySteps[k] = "dlx" -> ExchangeDeclare(b, dlxName)
      [] TopologySteps[k] = "queue" -> QueueDeclare(b, QueueName, dlxName)
      [] TopologySteps[k] = "dlq" -> QueueDeclare(b, dlqName, "")
      [] TopologySteps[k] = "bindDlq" -> QueueBind(b, dlqName, RoutingKeys, dlxName)
      [] TopologySteps[k] = "bindQueue" -> QueueBind(b, QueueName, RoutingKeys, Exchange)
      [] OTHER -> b

\* the broker refuses the step: a declaration that differs from what it holds
StepRefused(b, k) ==
    CASE TopologySteps[k] = "exchange" -> ExchangeRefused(b, Exchange)
      [] TopologySteps[k] = "dlx" -> ExchangeRefused(b, dlxName)
      [] TopologySteps[k] = "queue" -> QueueRefused(b, QueueName, dlxName)
      [] TopologySteps[k] = "dlq" -> QueueRefused(b, dlqName, "")
      [] OTHER -> FALSE

\* NewConsumer from step k on: the broker it leaves and the step that failed
\* (0 when none did); fail is the step that fails for a reason of the
\* connection (0 for none). The first error returns.
RECURSIVE Declare(_, _, _)
Declare(b, k, fail) ==
    IF k > Len(TopologySteps) THEN [broker |-> b, failedAt |-> 0]
    ELSE IF k = fail \/ StepRefused(b, k) THEN [broker |-> b, failedAt |-> k]
    ELSE Declare(StepDo(b, k), k + 1, fail)

\* steps completed by a NewConsumer call whose step failedAt failed
StepsDone(failedAt) == IF failedAt = 0 THEN Len(TopologySteps) ELSE failedAt - 1

\* variant: the Consumer is returned although a step failed
StartedAnyway(failedAt) == TRUE

\* NewConsumer returns a Consumer (err == nil)
Started(failedAt) == failedAt = 0

\* a consumer as NewConsumer returns it on a declared topology
Consuming(prefetchCount) ==
    [NoConsumer EXCEPT !.pc = "consuming", !.qos = Qos(prefetchCount),
                       !.step = Len(TopologySteps), !.dials = 1]

\* variant: one second after every failed dial
DialWaitFixed(i) == 1

\* time.Sleep(time.Second * time.Duration(i+1)) after the failed dial of
\* iteration i, in seconds
DialWait(i) == i + 1

\* variant: the loop dials once more
DialAgainOnceMore(i) == i < DialAttempts + 1

\* for i := 0; i < 5; i++
DialAgain(i) == i < DialAttempts

\* The dial loop of NewConsumer from iteration i on, when the broker refuses
\* the next `down` dials: whether err is left non-nil after the loop, the dials
\* made and the waits slept
RECURSIVE Dial(_, _, _, _)
Dial(i, down, dials, waits) ==
    IF ~DialAgain(i) THEN [err |-> TRUE, dials |-> dials, waits |-> waits]
    ELSE IF down = 0 THEN [err |-> FALSE, dials |-> dials + 1, waits |-> waits]
    ELSE Dial(i + 1, down - 1, dials + 1, Append(waits, DialWait(i)))

\* main: NewConsumer, then Consume in its goroutine, or Fatal on an error
NewConsumer(r) ==
    /\ rpc[r].pc = "new"
    /\ \E down \in faults.dial, fail \in {0} \cup faults.startup :
         LET conn == Dial(0, down, 0, <<>>)
             out == Declare(broker, 1, fail)
         IN  IF conn.err
             THEN /\ broker' = broker
                  /\ rpc' = [rpc EXCEPT ![r] =
                               [NoConsumer EXCEPT !.pc = "failed", !.err = "dial",
                                  !.dials = conn.dials, !.waits = conn.waits]]
             ELSE /\ broker' = IF out.failedAt = 0 THEN Topology(broker) ELSE out.broker
                  /\ rpc' = [rpc EXCEPT ![r] =
                               IF Started(out.failedAt)
                               THEN [Consuming(config.PrefetchCount) EXCEPT
                                       !.step = StepsDone(out.failedAt),
                                       !.dials = conn.dials, !.waits = conn.waits]
                               ELSE [NoConsumer EXCEPT !.pc = "failed",
                                       !.step = StepsDone(out.failedAt),
                                       !.err = TopologySteps[out.failedAt],
                                       !.dials = conn.dials, !.waits = conn.waits]]
    /\ UNCHANGED <<config, pool, queues, stream, msgs, h, items, faults, writeSeq>>

\* The bid service publishes a message to the exchange
Publish(d, m) ==
    /\ msgs[d] = NoMsg
    /\ \A e \in Ids : e < d => msgs[e] # NoMsg
    /\ \E e \in broker.exchanges : e.name = Exchange
    /\ msgs' = [msgs EXCEPT ![d] = m]
    /\ queues' = Enqueue(queues, Route(broker, Exchange, m.rk), d)
    /\ UNCHANGED <<config, pool, broker, stream, rpc, h, items, faults, writeSeq>>

\* variant: the broker pushes whatever the channel's prefetch
PrefetchOpenAlways(r) == TRUE

\* channel.Qos(prefetchCount, 0, false): the broker holds back deliveries while
\* the channel has prefetchCount unacknowledged ones
PrefetchOpen(r) == Unsettled(r) < rpc[r].qos

\* The broker pushes the head of the work queue to a consumer within its prefetch
Deliver(r) ==
    /\ rpc[r].pc = "consuming"
    /\ queues[QueueName] # <<>>
    /\ PrefetchOpen(r)
    /\ stream' = [stream EXCEPT ![r] = Append(@, Head(queues[QueueName]))]
    /\ queues' = [queues EXCEPT ![QueueName] = Tail(@)]
    /\ UNCHANGED <<config, pool, broker, msgs, rpc, h, items, faults, writeSeq>>

-----------------------------------------------------------------------------
\* handler invocations one Consume loop can have in progress: handleMessage
\* is called in the loop's own goroutine
Slots == 1

\* slots of replica r that are free
FreeSlots(r) == Slots - Cardinality({d \in Ids : h[d].owner = r /\ h[d].pc \in Running})

\* variant: handleMessage is started without waiting for the running one
CanTakeUnbounded(r) == TRUE

\* Consume: the intake loop takes the next delivery and calls handleMessage;
\* the call is synchronous, so the loop takes nothing while a call is running
CanTake(r) == \A d \in Ids : ~(h[d].owner = r /\ h[d].pc \in Running)

\* variant: msg.Nack(false, true)
NackRequeueTrue == TRUE

\* requeue argument of msg.Nack(false, false)
NackRequeue == FALSE

\* The queues after the broker took a reject of delivery d from the work queue:
\* back to the work queue on requeue, else through the queue's dead-letter
\* exchange with the message's routing key (dropped when nothing matches)
Rejected(qs, b, d, rk, requeue) ==
    IF requeue
    THEN [qs EXCEPT ![QueueName] = <<d>> \o @]
    ELSE LET dlx == DeadLetterExchange(b, QueueName)
         IN  IF dlx = "" THEN qs ELSE Enqueue(qs, Route(b, dlx, rk), d)

\* variant: the error path returns without settling the delivery
NackForgotten(hd, d) ==
    /\ queues' = queues
    /\ h' = [hd EXCEPT ![d].pc = "done"]

\* the AMQP channel of the replica that holds delivery d is closed: Ack and
\* Nack return an error and do not reach the broker
ChannelClosed(hd, d) == hd[d].owner \in Replicas /\ rpc[hd[d].owner].closed

Nack(hd, d) ==
    /\ queues' = IF ChannelClosed(hd, d) THEN queues
                 ELSE Rejected(queues, broker, d, msgs[d].rk, NackRequeue)
    /\ h' = [hd EXCEPT ![d].pc = "done", ![d].nacks = @ + 1,
                      ![d].requeued = @ + (IF NackRequeue THEN 1 ELSE 0),
                      ![d].settleErr = ChannelClosed(hd, d)]

\* bid time: the payload's Timestamp when it parses, else the envelope's
BidTime(m) == IF m.Timestamp.set THEN m.Timestamp.val ELSE m.timestamp

\* required payload fields of the two event kinds
PayloadValid(m) ==
    CASE m.event = "bid.placed" -> m.ItemID # "" /\ m.Amount # ""
      [] m.event = "bid.won" -> m.ItemID # "" /\ m.BuyerID # "" /\ m.FinalAmount # ""
      [] OTHER -> TRUE

\* variant: every event name is dispatched to a handler
KnownAny(m) == TRUE

\* HandleEvent's switch has a case for the event name
Known(m) == m.event \in {"bid.placed", "bid.won"}

\* variant: the decode error is ignored
UnmarshalLenient(m) == TRUE

\* json.Unmarshal(msg.Body, &event) succeeds
Unmarshal(m) == ~m.malformed

\* variant: what waited in the channel during a call is discarded
RestDropped(st) == <<>>

\* the deliveries that stay in the channel when the loop takes the first
Rest(st) == Tail(st)

\* Consume takes the next delivery and calls handleMessage, which runs up to
\* the handler's first repository call: decode, HandleEvent, payload validation
Receive(r) ==
    /\ rpc[r].pc = "consuming"
    /\ stream[r] # <<>>
    /\ CanTake(r)
    /\ LET d == Head(stream[r])
           m == msgs[d]
           go == Known(m) /\ PayloadValid(m)
           taken == [h EXCEPT ![d].owner = r, ![d].pc = "none", ![d].attempt = 0,
                              ![d].ret = "none", ![d].expired = FALSE]
       IN  IF ~Unmarshal(m)
           THEN Nack(taken, d)
           ELSE /\ h' = [taken EXCEPT ![d].calls = @ + 1,
                           ![d].pc = IF go THEN "get" ELSE "returned",
                           ![d].attempt = IF go THEN 1 ELSE 0,
                           ![d].ret = IF ~Known(m) THEN "ok"
                                      ELSE IF go THEN "none" ELSE "err"]
                /\ UNCHANGED queues
    /\ stream' = [stream EXCEPT ![r] = Rest(@)]
    /\ UNCHANGED <<config, pool, broker, msgs, rpc, items, faults, writeSeq>>

\* variant: the price is only ever raised
ApplyBidPlacedIfHigher(item, m) ==
    LET amount == NewFromString(m.Amount).val
        priced == [item EXCEPT !.CurrentPrice = IF amount > @ THEN amount ELSE @]
    IN  IF ShouldExtendForBid(priced, BidTime(m))
        THEN [priced EXCEPT !.EndDate = CalculateNewEndDate(priced)]
        ELSE priced

\* handleBidPlaced between GetItem and Update: price, anti-snipe extension
ApplyBidPlaced(item, m) ==
    LET priced == [item EXCEPT !.CurrentPrice = NewFromString(m.Amount).val]
    IN  IF ShouldExtendForBid(priced, BidTime(m))
        THEN [priced EXCEPT !.EndDate = CalculateNewEndDate(priced)]
        ELSE priced

\* handleBidWon between GetItem and Update
ApplyBidWon(item, m) ==
    [item EXCEPT !.Status = "sold", !.BuyerID = m.BuyerID,
                 !.CurrentPrice = NewFromString(m.FinalAmount).val,
                 !.EndPrice = Some(NewFromString(m.FinalAmount).val)]

AmountText(m) == IF m.event = "bid.placed" THEN m.Amount ELSE m.FinalAmount

\* variant: the parse error of the amount is ignored
AmountParsesAlways(m) == TRUE

\* decimal.NewFromString accepts the amount of the event
AmountParses(m) == NewFromString(AmountText(m)).ok

\* variant: the handler is called with a context that has no deadline
CtxNeverDone(hd) == FALSE

\* the governing context of the replica's Consume call is cancelled
Cancelled(r) == r \in Replicas /\ rpc[r].cancelled

\* processCtx is done: the 30 s processing timeout of the invocation expired, or
\* its parent, the governing context, was cancelled
CtxDone(hd) == hd.expired \/ Cancelled(hd.owner)

\* processCtx.Err()
CtxErr(hd) == IF hd.expired THEN "context deadline exceeded" ELSE "context canceled"

\* The errors a repository call of invocation d may fail with ("" = it runs):
\* a call on a done context fails; otherwise one of the failures left to the run
FaultChoices(d) ==
    IF CtxDone(h[d]) THEN {CtxErr(h[d])}
    ELSE IF faults.left > 0 THEN {""} \cup faults.errors
    ELSE {""}

Spend(d, fault) ==
    IF fault # "" /\ ~CtxDone(h[d]) THEN [faults EXCEPT !.left = @ - 1] ELSE faults

Call(op, err) == [op |-> op, err |-> err]

\* variant: a retry goes on with the copy of the attempt before
AttemptCopyReused(hd, row) == IF hd.attempt > 1 THEN hd.item ELSE row

\* variant: a retry keeps the end date its last attempt computed
AttemptCopyExtended(hd, row) ==
    IF hd.attempt > 1 THEN [row EXCEPT !.EndDate = hd.item.EndDate] ELSE row

\* item, err := h.repository.GetItem(ctx, itemID) inside the loop: the copy an
\* attempt works on is the row it read
AttemptCopy(hd, row) == row

\* variant: bid.won is retried like bid.placed
HasRetryLoopAny(m) == TRUE

\* handleBidPlaced wraps its read-modify-write in the retry loop, handleBidWon
\* makes one pass
HasRetryLoop(m) == m.event = "bid.placed"

\* One attempt's read: GetItem, then the in-memory changes
Read(d) ==
    /\ h[d].pc = "get"
    /\ \E fault \in FaultChoices(d) :
         LET m == msgs[d]
             res == GetItem(items, m.ItemID, fault)
             ok == res.err = "" /\ AmountParses(m)
             copy == AttemptCopy(h[d], res.item)
             next == IF m.event = "bid.placed" THEN ApplyBidPlaced(copy, m)
                     ELSE ApplyBidWon(copy, m)
         IN  /\ faults' = Spend(d, fault)
             /\ h' = [h EXCEPT ![d].gets = @ + 1,
                        ![d].log = Append(@, Call("GetItem", res.err)),
                        ![d].pc = IF ok THEN "update" ELSE "returned",
                        ![d].ret = IF ok THEN "none" ELSE "err",
                        ![d].item = IF ok THEN next ELSE NoItem,
                        ![d].originalEndDate = IF ok THEN copy.EndDate ELSE 0,
                        ![d].fresh = IF res.err = "" THEN res.item ELSE NoItem,
                        ![d].readSeq = IF ok THEN writeSeq[m.ItemID] ELSE 0]
    /\ UNCHANGED <<config, pool, broker, queues, stream, msgs, rpc, items, writeSeq>>

\* One attempt's write: Update, then return, or back off and retry on a conflict
Write(d) ==
    /\ h[d].pc = "update"
    /\ \E fault \in FaultChoices(d) :
         LET m == msgs[d]
             item == h[d].item
             res == Update(items, item, fault)
             retry == /\ HasRetryLoop(m)
                      /\ ShouldRetry(res.err, h[d].attempt)
         IN  /\ faults' = Spend(d, fault)
             /\ items' = res.table
             /\ IF res.err = ""
                THEN /\ writeSeq' = [writeSeq EXCEPT ![item.ID] = @ + 1]
                     /\ h' = [h EXCEPT ![d].pc = "returned", ![d].ret = "ok",
                                ![d].log = Append(@, Call("Update", res.err)),
                                ![d].writes = @ + 1,
                                ![d].stale = (writeSeq[item.ID] # h[d].readSeq),
                                ![d].written = res.table[item.ID],
                                ![d].writeNo = writeSeq[item.ID] + 1]
                ELSE /\ writeSeq' = writeSeq
                     /\ h' = [h EXCEPT ![d].pc = IF retry THEN "get" ELSE "returned",
                                ![d].log = Append(@, Call("Update", res.err)),
                                ![d].attempt = IF retry THEN @ + 1 ELSE @,
                                ![d].ret = IF retry THEN "none" ELSE "err"]
    /\ UNCHANGED <<config, pool, broker, queues, stream, msgs, rpc>>

\* variant: the handler's error is ignored
SucceededAlways(hd) == TRUE

\* err == nil after handler(processCtx, &event)
Succeeded(hd) == hd.ret = "ok"

\* handleMessage after the handler returned: Ack on success, Nack on error
Settle(d) ==
    /\ h[d].pc = "returned"
    /\ IF Succeeded(h[d])
       THEN /\ h' = [h EXCEPT ![d].pc = "done", ![d].acks = @ + 1,
                              ![d].settleErr = ChannelClosed(h, d)]
            /\ UNCHANGED queues
       ELSE Nack(h, d)
    /\ UNCHANGED <<config, pool, broker, stream, msgs, rpc, items, faults, writeSeq>>

\* context.WithTimeout(ctx, 30*time.Second): the deadline passes while the
\* handler is running
Timeout(d) ==
    /\ h[d].pc \in {"get", "update"}
    /\ ~h[d].expired
    /\ ~Cancelled(h[d].owner)
    /\ h' = [h EXCEPT ![d].expired = TRUE]
    /\ UNCHANGED <<config, pool, broker, queues, stream, msgs, rpc, items, faults, writeSeq>>

\* main: the shutdown signal arrives and cancel() is called
Shutdown(r) ==
    /\ rpc[r].pc = "consuming"
    /\ ~rpc[r].cancelled
    /\ rpc' = [rpc EXCEPT ![r].cancelled = TRUE]
    /\ UNCHANGED <<config, pool, broker, queues, stream, msgs, h, items, faults, writeSeq>>

\* deliveries of replica r the broker holds as unacknowledged, oldest first
Unacked(r) ==
    SelectSeq([d \in Ids |-> d],
              LAMBDA d : \/ \E k \in 1..Len(stream[r]) : stream[r][k] = d
                         \/ h[d].owner = r /\ h[d].pc \in Running)

\* The channel to the broker is lost: the delivery stream is closed after the
\* deliveries already handed over, and the broker requeues what is unacknowledged
CloseStream(r) ==
    /\ rpc[r].pc = "consuming"
    /\ ~rpc[r].closed
    /\ rpc' = [rpc EXCEPT ![r].closed = TRUE]
    /\ queues' = [queues EXCEPT ![QueueName] = Unacked(r) \o @]
    /\ UNCHANGED <<config, pool, broker, stream, msgs, h, items, faults, writeSeq>>

\* variant: the loop also ends after a rejected delivery
MayReturnAfterNack(r) ==
    \/ rpc[r].cancelled
    \/ rpc[r].closed /\ stream[r] = <<>>
    \/ \E d \in Ids : h[d].owner = r /\ h[d].pc = "done" /\ h[d].nacks > 0

\* the select of Consume has a case that returns: ctx.Done(), or the closed
\* stream once the deliveries handed over before are taken
MayReturn(r) ==
    \/ rpc[r].cancelled
    \/ rpc[r].closed /\ stream[r] = <<>>

\* Consume returns from its loop
Return(r) ==
    /\ rpc[r].pc = "consuming"
    /\ CanTake(r)
    /\ MayReturn(r)
    /\ \E err \in {"context canceled", "message channel closed"} :
         /\ err = "context canceled" => rpc[r].cancelled
         /\ err = "message channel closed" =>
               (~rpc[r].cancelled \/ (rpc[r].closed /\ stream[r] = <<>>))
         /\ rpc' = [rpc EXCEPT ![r].pc = "returned", ![r].err = err]
    /\ UNCHANGED <<config, pool, broker, queues, stream, msgs, h, items, faults, writeSeq>>

Next ==
    \/ \E r \in Replicas : NewConsumer(r)
    \/ \E d \in Ids, m \in pool : Publish(d, m)
    \/ \E r \in Replicas : Deliver(r)
    \/ \E r \in Replicas : Receive(r)
    \/ \E d \in Ids : Read(d)
    \/ \E d \in Ids : Write(d)
    \/ \E d \in Ids : Settle(d)

Spec == Init /\ [][Next]_vars

-----------------------------------------------------------------------------
\* Update on its own: a handler of replica "w1" is about to call Update with an
\* item copy whose columns, version included, are drawn from the values below;
\* the stored row is the one created by the migrations (version 1)

RepoCopies ==
    { [Item(p, e, Nil, Nil) EXCEPT !.Version = v, !.Status = st] :
        p \in {120, 150, 200}, e \in {20, 25}, v \in 0..MaxVersion, st \in {"active", "sold"} }

InitRepo ==
    /\ config = [PrefetchCount |-> PrefetchCount, WorkerPoolSize |-> WorkerPoolSize]
    /\ pool = PipelineMessages
    /\ broker = Topology(NoBroker)
    /\ queues = [q \in {QueueName, dlqName} |-> <<>>]
    /\ stream = [r \in Replicas |-> <<>>]
    /\ msgs = [d \in Ids |-> IF d = 1 THEN BidPlaced("I1", "150", 15, Nil) ELSE NoMsg]
    /\ rpc = [r \in Replicas |-> Consuming(PrefetchCount)]
    /\ items = [id \in ItemIDs |-> Item(100, 20, Nil, Nil)]
    /\ \E copy \in RepoCopies :
         h = [d \in Ids |->
                IF d = 1
                THEN [NoHandling EXCEPT !.pc = "update", !.owner = "w1", !.attempt = 1,
                                        !.calls = 1, !.item = copy]
                ELSE NoHandling]
    /\ faults = [left |-> MaxFaults, errors |-> {"error"}, startup |-> {}, dial |-> {0}]
    /\ writeSeq = [id \in ItemIDs |-> 0]

NextRepo ==
    \/ \E d \in Ids : Write(d)
    \/ \E d \in Ids : Settle(d)

RepoSpec == InitRepo /\ [][NextRepo]_vars

-----------------------------------------------------------------------------
\* One delivery through handleMessage, against any app.Repository: the delivery
\* waits in the channel of replica "w1"; its message, the item's extension
\* settings, the repository's errors (conflicts included) and the moment the
\* processing timeout expires are drawn from the sets below

MaxHandlerFaults == 3

\* bid times around the extension windows of an item that ends at 20
BidTimes == {5, 10, 14, 15, 16, 17, 19, 20, 22}

HandlerMessages ==
    { BidPlaced("I1", "150", t, Nil) : t \in BidTimes }
    \cup { BidPlaced("I1", "120", 3, Some(16)),
           BidPlaced("", "150", 15, Nil),
           BidPlaced("I1", "", 15, Nil),
           BidPlaced("I1", "abc", 15, Nil),
           BidPlaced("I9", "150", 15, Nil),
           BidWon("I1", "B1", "200"),
           BidWon("I1", "", "200"),
           BidWon("I1", "B1", "abc"),
           BidCancelled,
           ExampleBid,
           ExampleBidHandlerKeys }

\* extension_threshold_minutes, extension_duration_minutes of the item
ExtensionSettings ==
    { [thr |-> Nil, dur |-> Nil],
      [thr |-> Some(4), dur |-> Some(2)],
      [thr |-> Some(30), dur |-> Some(10)],
      [thr |-> Some(10), dur |-> Nil] }

StoredItem(set) == Item(100, 20, set.thr, set.dur)

InitHandler ==
    /\ config = [PrefetchCount |-> PrefetchCount, WorkerPoolSize |-> WorkerPoolSize]
    /\ pool = {}
    /\ broker = Topology(NoBroker)
    /\ queues = [q \in {QueueName, dlqName} |-> <<>>]
    /\ stream = [r \in Replicas |-> IF r = "w1" THEN <<1>> ELSE <<>>]
    /\ \E m \in HandlerMessages : msgs = [d \in Ids |-> IF d = 1 THEN m ELSE NoMsg]
    /\ rpc = [r \in Replicas |-> Consuming(PrefetchCount)]
    /\ \E set \in ExtensionSettings : items = [id \in ItemIDs |-> StoredItem(set)]
    /\ h = [d \in Ids |-> NoHandling]
    /\ faults = [left |-> MaxHandlerFaults, errors |-> {"error", "optimistic lock failed"},
                 startup |-> {}, dial |-> {0}]
    /\ writeSeq = [id \in ItemIDs |-> 0]

NextHandler ==
    \/ \E r \in Replicas : Receive(r)
    \/ \E d \in Ids : Read(d)
    \/ \E d \in Ids : Write(d)
    \/ \E d \in Ids : Settle(d)
    \/ \E d \in Ids : Timeout(d)

HandlerSpec == InitHandler /\ [][NextHandler]_vars

\* The handler's goroutine keeps running: a repository call returns (at the
\* latest when its context is done), and handleMessage settles the delivery
\* once the handler returned. The timeout itself need not expire.
HandlerProgress ==
    /\ \A r \in Replicas : WF_vars(Receive(r))
    /\ \A d \in Ids : WF_vars(Read(d)) /\ WF_vars(Write(d)) /\ WF_vars(Settle(d))

FairHandlerSpec == InitHandler /\ [][NextHandler]_vars /\ HandlerProgress

-----------------------------------------------------------------------------
\* Two deliveries handed to consuming replicas, both to replica "w1" or one to
\* each; the repository may fail once, with a conflict or another error

BurstMessages ==
    { BidPlaced("I1", "150", 15, Nil),
      BidPlaced("I1", "120", 3, Some(16)),
      BidWon("I1", "B1", "200"),
      Garbage }

Layouts ==
    { [r \in Replicas |-> IF r = "w1" THEN <<1, 2>> ELSE <<>>],
      [r \in Replicas |-> IF r = "w1" THEN <<1>> ELSE <<2>>] }

InitBurst ==
    /\ config = [PrefetchCount |-> PrefetchCount, WorkerPoolSize |-> WorkerPoolSize]
    /\ pool = {}
    /\ broker = Topology(NoBroker)
    /\ queues = [q \in {QueueName, dlqName} |-> <<>>]
    /\ stream \in Layouts
    /\ \E m1 \in BurstMessages, m2 \in BurstMessages :
         msgs = [d \in Ids |-> IF d = 1 THEN m1 ELSE IF d = 2 THEN m2 ELSE NoMsg]
    /\ rpc = [r \in Replicas |-> Consuming(PrefetchCount)]
    /\ items = [id \in ItemIDs |-> Item(100, 20, Nil, Nil)]
    /\ h = [d \in Ids |-> NoHandling]
    /\ faults = [left |-> MaxFaults, errors |-> {"error", "optimistic lock failed"},
                 startup |-> {}, dial |-> {0}]
    /\ writeSeq = [id \in ItemIDs |-> 0]

BurstSpec == InitBurst /\ [][NextHandler]_vars

FairBurstSpec == InitBurst /\ [][NextHandler]_vars /\ HandlerProgress

-----------------------------------------------------------------------------
\* The end of Consume: two deliveries wait in the channel of replica "w1" when
\* the processes may be shut down or lose their channel, at any moment; the
\* repository fails only on a done context

LifecycleMessages == {BidPlaced("I1", "150", 15, Nil), BidCancelled, Garbage}

InitLifecycle ==
    /\ config = [PrefetchCount |-> PrefetchCount, WorkerPoolSize |-> WorkerPoolSize]
    /\ pool = {}
    /\ broker = Topology(NoBroker)
    /\ queues = [q \in {QueueName, dlqName} |-> <<>>]
    /\ stream = [r \in Replicas |-> IF r = "w1" THEN <<1, 2>> ELSE <<>>]
    /\ \E m1 \in LifecycleMessages, m2 \in LifecycleMessages :
         msgs = [d \in Ids |-> IF d = 1 THEN m1 ELSE IF d = 2 THEN m2 ELSE NoMsg]
    /\ rpc = [r \in Replicas |-> Consuming(PrefetchCount)]
    /\ items = [id \in ItemIDs |-> Item(100, 20, Nil, Nil)]
    /\ h = [d \in Ids |-> NoHandling]
    /\ faults = [left |-> 0, errors |-> {}, startup |-> {}, dial |-> {0}]
    /\ writeSeq = [id \in ItemIDs |-> 0]

NextLifecycle ==
    \/ \E r \in Replicas : Receive(r)
    \/ \E d \in Ids : Read(d)
    \/ \E d \in Ids : Write(d)
    \/ \E d \in Ids : Settle(d)
    \/ \E r \in Replicas : Shutdown(r)
    \/ \E r \in Replicas : CloseStream(r)
    \/ \E r \in Replicas : Return(r)

LifecycleSpec == InitLifecycle /\ [][NextLifecycle]_vars

\* The goroutine of Consume keeps running while the process lives: a ready
\* case of its select is taken, a handler's repository call returns, and
\* handleMessage settles. Shutdown and the loss of the channel are not forced.
LifecycleProgress ==
    /\ HandlerProgress
    /\ \A r \in Replicas : WF_vars(Return(r))

FairLifecycleSpec == InitLifecycle /\ [][NextLifecycle]_vars /\ LifecycleProgress

-----------------------------------------------------------------------------
\* Startup against a broker that may fail any call of NewConsumer: the worker
\* processes start on an empty broker while the bid service publishes bids;
\* the repository does not fail

InitStartup ==
    /\ config = [PrefetchCount |-> PrefetchCount, WorkerPoolSize |-> WorkerPoolSize]
    /\ pool = {BidPlaced("I1", "150", 15, Nil)}
    /\ broker = NoBroker
    /\ queues = [q \in {QueueName, dlqName} |-> <<>>]
    /\ stream = [r \in Replicas |-> <<>>]
    /\ msgs = [d \in Ids |-> NoMsg]
    /\ rpc = [r \in Replicas |-> NoConsumer]
    /\ items = [id \in ItemIDs |-> Item(100, 20, Nil, Nil)]
    /\ h = [d \in Ids |-> NoHandling]
    /\ faults = [left |-> 0, errors |-> {}, startup |-> 1..Len(TopologySteps), dial |-> {0}]
    /\ writeSeq = [id \in ItemIDs |-> 0]

StartupSpec == InitStartup /\ [][Next]_vars

-----------------------------------------------------------------------------
\* Startup against a broker that is down for a while: it refuses the first
\* dials of a worker process, up to MaxDialFailures of them, and none of the
\* calls after the dial

MaxDialFailures == 6

InitConnect ==
    /\ config = [PrefetchCount |-> PrefetchCount, WorkerPoolSize |-> WorkerPoolSize]
    /\ pool = {BidPlaced("I1", "150", 15, Nil)}
    /\ broker = NoBroker
    /\ queues = [q \in {QueueName, dlqName} |-> <<>>]
    /\ stream = [r \in Replicas |-> <<>>]
    /\ msgs = [d \in Ids |-> NoMsg]
    /\ rpc = [r \in Replicas |-> NoConsumer]
    /\ items = [id \in ItemIDs |-> Item(100, 20, Nil, Nil)]
    /\ h = [d \in Ids |-> NoHandling]
    /\ faults = [left |-> 0, errors |-> {}, startup |-> {}, dial |-> 0..MaxDialFailures]
    /\ writeSeq = [id \in ItemIDs |-> 0]

ConnectSpec == InitConnect /\ [][Next]_vars

-----------------------------------------------------------------------------
\* The pipeline with a prefetch small enough to bind: the consumer is
\* configured with PrefetchCount 0 (NewConsumer then takes 10) or a count
\* from 1 to MaxPrefetch, and bids arrive while handlers are running

MaxPrefetch == 1

PrefetchMessages ==
    { BidPlaced("I1", "150", 15, Nil),
      BidPlaced("I1", "120", 3, Nil),
      Garbage }

InitPrefetch ==
    /\ \E n \in 0..MaxPrefetch :
         config = [PrefetchCount |-> n, WorkerPoolSize |-> WorkerPoolSize]
    /\ pool = PrefetchMessages
    /\ broker = NoBroker
    /\ queues = [q \in {QueueName, dlqName} |-> <<>>]
    /\ stream = [r \in Replicas |-> <<>>]
    /\ msgs = [d \in Ids |-> NoMsg]
    /\ rpc = [r \in Replicas |-> NoConsumer]
    /\ items = [id \in ItemIDs |-> Item(100, 20, Nil, Nil)]
    /\ h = [d \in Ids |-> NoHandling]
    /\ faults = [left |-> 0, errors |-> {}, startup |-> {}, dial |-> {0}]
    /\ writeSeq = [id \in ItemIDs |-> 0]

PrefetchSpec == InitPrefetch /\ [][Next]_vars

-----------------------------------------------------------------------------
\* GetExtensionThreshold and GetExtensionDuration on every kind of override:
\* one bid is handled for an item whose two *int settings are nil, negative,
\* zero or positive (the table keeps zero and negative values out with CHECK
\* constraints; the methods test for them all the same), without faults

Overrides == {Nil, Some(-3), Some(0), Some(4), Some(30)}

OverrideSettings == [thr : Overrides, dur : Overrides \ {Some(30)}]

OverrideBidTimes == {5, 12, 17, 22}

InitExtension ==
    /\ config = [PrefetchCount |-> PrefetchCount, WorkerPoolSize |-> WorkerPoolSize]
    /\ pool = {}
    /\ broker = Topology(NoBroker)
    /\ queues = [q \in {QueueName, dlqName} |-> <<>>]
    /\ stream = [r \in Replicas |-> IF r = "w1" THEN <<1>> ELSE <<>>]
    /\ \E t \in OverrideBidTimes :
         msgs = [d \in Ids |-> IF d = 1 THEN BidPlaced("I1", "150", t, Nil) ELSE NoMsg]
    /\ rpc = [r \in Replicas |-> Consuming(PrefetchCount)]
    /\ \E set \in OverrideSettings : items = [id \in ItemIDs |-> StoredItem(set)]
    /\ h = [d \in Ids |-> NoHandling]
    /\ faults = [left |-> 0, errors |-> {}, startup |-> {}, dial |-> {0}]
    /\ writeSeq = [id \in ItemIDs |-> 0]

ExtensionSpec == InitExtension /\ [][NextHandler]_vars

-----------------------------------------------------------------------------
\* Properties

InQueue(q, d) == \E k \in 1..Len(queues[q]) : queues[q][k] = d
InStream(d) == \E r \in Replicas : \E k \in 1..Len(stream[r]) : stream[r][k] = d
Placed(d) == ~msgs[d].malformed /\ msgs[d].event = "bid.placed"

\* C1: in one consumer instance the number of handler invocations that have
\* started and not yet returned never exceeds the configured workerPoolSize.
C1_BoundedConcurrency ==
    \A r \in Replicas : Cardinality(InFlight(r)) <= config.WorkerPoolSize

\* a burst larger than the pool: one handler runs while the next delivery waits
C1_Witness ==
    \E r \in Replicas :
        /\ config.WorkerPoolSize = 1
        /\ Cardinality(InFlight(r)) = 1
        /\ stream[r] # <<>>

\* C2: a bid.placed delivery is acknowledged only with its update persisted on
\* top of the item state it read (no write over a stale read), and the price of
\* the item is then the amount of one of the bids.
C2_NoLostUpdate ==
    \A d \in Ids :
        (Placed(d) /\ h[d].acks > 0) =>
            /\ h[d].writes = 1
            /\ ~h[d].stale
            /\ (\A e \in Ids : h[e].writes > 0 => Placed(e)) =>
                   \E e \in Ids : /\ Placed(e) /\ h[e].writes > 0
                                  /\ items["I1"].CurrentPrice = NewFromString(msgs[e].Amount).val

\* C3: a delivery whose handleMessage call completed was settled exactly once,
\* by one Ack or one Nack; a delivery still being handled was not settled yet.
C3_SettledExactlyOnce ==
    \A d \in Ids :
        /\ h[d].pc = "done" => h[d].acks + h[d].nacks = 1
        /\ h[d].pc # "done" => h[d].acks + h[d].nacks = 0

\* one delivery acknowledged after a persisted update, one rejected by its handler
C3_Witness ==
    /\ \E d \in Ids : h[d].pc = "done" /\ h[d].acks = 1 /\ h[d].nacks = 0 /\ h[d].writes = 1
    /\ \E d \in Ids : h[d].pc = "done" /\ h[d].acks = 0 /\ h[d].nacks = 1 /\ h[d].calls = 1

\* C4: the stored version of an item is its initial version plus the number of
\* updates persisted for it.
C4_VersionCountsUpdates ==
    \A id \in ItemIDs : items[id].Version = 1 + writeSeq[id]

\* C5: an Update whose item copy carries a version other than the stored one
\* fails and leaves the stored row as it was; an Update that fails for another
\* reason is not retried.
C5_StaleVersionRejected ==
    \A d \in Ids :
        (h[d].pc \in {"returned", "done"} /\ h[d].attempt > 0) =>
            /\ h[d].item.Version # items[h[d].item.ID].Version =>
                   /\ h[d].writes = 0
                   /\ h[d].ret = "err"
                   /\ items[h[d].item.ID] = Item(100, 20, Nil, Nil)
            /\ (h[d].item.Version = items[h[d].item.ID].Version /\ h[d].ret = "err") =>
                   h[d].attempt = 1

\* C6: a delivery whose body does not decode is rejected without requeue and
\* the handler is never invoked for it.
C6_MalformedRejected ==
    \A d \in Ids :
        (msgs[d] # NoMsg /\ msgs[d].malformed) =>
            /\ h[d].calls = 0
            /\ h[d].acks = 0
            /\ h[d].requeued = 0
            /\ h[d].pc = "done" => h[d].nacks = 1

C6_Witness ==
    \E d \in Ids : msgs[d] # NoMsg /\ msgs[d].malformed /\ h[d].pc = "done" /\ h[d].nacks = 1

\* C7: a delivery whose handler returned an error is rejected without requeue
\* and never acknowledged.
C7_HandlerErrorRejected ==
    \A d \in Ids :
        h[d].ret = "err" =>
            /\ h[d].acks = 0
            /\ h[d].requeued = 0
            /\ h[d].pc = "done" => h[d].nacks = 1

\* a payload error and a persistence error, both rejected
C7_Witness ==
    /\ \E d \in Ids : h[d].ret = "err" /\ h[d].pc = "done" /\ h[d].nacks = 1 /\ h[d].gets = 0
    /\ \E d \in Ids : h[d].ret = "err" /\ h[d].pc = "done" /\ h[d].nacks = 1 /\ h[d].gets = 1

\* C8: a delivery is acknowledged only after its handler returned success, and
\* a handled delivery whose handler returned success is acknowledged.
C8_AckAfterSuccess ==
    \A d \in Ids :
        /\ h[d].acks > 0 => (h[d].calls > 0 /\ h[d].ret = "ok")
        /\ (h[d].pc = "done" /\ h[d].ret = "ok") => h[d].acks = 1

C8_Witness ==
    \E d \in Ids : Placed(d) /\ h[d].pc = "done" /\ h[d].ret = "ok" /\ h[d].acks = 1 /\ h[d].writes = 1

\* C9: a rejected delivery is in the dead-letter queue, and neither back on the
\* work queue nor handed to any consumer again.
C9_RejectedDeadLettered ==
    \A d \in Ids :
        h[d].nacks > 0 =>
            /\ InQueue(dlqName, d)
            /\ ~InQueue(QueueName, d)
            /\ ~InStream(d)
            /\ h[d].pc = "done"
            /\ h[d].nacks = 1

C9_Witness ==
    \E d \in Ids : h[d].nacks = 1 /\ InQueue(dlqName, d) /\ h[d].ret = "err"

\* C10: a bid.placed whose bid time is inside the extension window of the item
\* it read (0 < endDate - bidTime <= threshold) persists an endDate equal to
\* the endDate it read plus the item's extension duration.
C10_ExtensionFromOldEndDate ==
    \A d \in Ids :
        (Placed(d) /\ h[d].writes > 0) =>
            LET row == h[d].written
                old == h[d].originalEndDate
                left == old - BidTime(msgs[d])
                thr == IF row.ExtensionThresholdMinutes.set
                       THEN row.ExtensionThresholdMinutes.val ELSE 10
                dur == IF row.ExtensionDurationMinutes.set
                       THEN row.ExtensionDurationMinutes.val ELSE 5
            IN  (0 < left /\ left <= thr) => row.EndDate = old + dur

\* an extension on the default settings and one on the item's own settings
C10_Witness ==
    \E d \in Ids :
        /\ Placed(d)
        /\ h[d].writes = 1
        /\ h[d].written.EndDate > h[d].originalEndDate
        /\ h[d].written.ExtensionDurationMinutes.set

\* the repository calls of invocation d so far, by kind
Updates(d) == {k \in 1..Len(h[d].log) : h[d].log[k].op = "Update"}
Conflicts(d) == {k \in Updates(d) : h[d].log[k].err = "optimistic lock failed"}
Returned(d) == h[d].pc \in {"returned", "done"}

\* C11: a valid bid.placed whose bid time leaves more remaining time than the
\* item's extension threshold (endDate - bidTime > threshold) is persisted
\* with the endDate the item had before processing.
C11_EarlyBidKeepsEndDate ==
    \A d \in Ids :
        (Placed(d) /\ h[d].writes > 0) =>
            LET row == h[d].written
                old == h[d].originalEndDate
                thr == IF row.ExtensionThresholdMinutes.set
                       THEN row.ExtensionThresholdMinutes.val ELSE 10
            IN  old - BidTime(msgs[d]) > thr => row.EndDate = old

\* a bid 5 minutes before the end of an item whose own threshold is 4 (the
\* default threshold would extend it) is persisted without extension
C11_Witness ==
    \E d \in Ids :
        /\ Placed(d)
        /\ h[d].writes = 1
        /\ h[d].written.ExtensionThresholdMinutes = Some(4)
        /\ h[d].originalEndDate - BidTime(msgs[d]) = 5
        /\ h[d].written.EndDate = h[d].originalEndDate
        /\ h[d].written.CurrentPrice = 150

\* C12: a bid.placed whose bid time is at or after the item's endDate
\* (remaining time <= 0) never changes endDate, whatever the threshold and
\* duration settings.
C12_LateBidKeepsEndDate ==
    \A d \in Ids :
        (Placed(d) /\ h[d].writes > 0 /\ BidTime(msgs[d]) >= h[d].originalEndDate) =>
            h[d].written.EndDate = h[d].originalEndDate

\* a bid at the very end time of an item whose threshold covers the whole auction
C12_Witness ==
    \E d \in Ids :
        /\ Placed(d)
        /\ h[d].writes = 1
        /\ BidTime(msgs[d]) = h[d].originalEndDate
        /\ h[d].written.ExtensionThresholdMinutes = Some(30)
        /\ h[d].written.EndDate = h[d].originalEndDate

\* C13: a bid.placed invocation makes at most 3 read-modify-write attempts; it
\* reads again only after an Update reported a conflict, returns success as
\* soon as one Update succeeds, and after the conflict of the 3rd attempt
\* returns an error (the delivery is rejected) without a 4th attempt.
C13_AtMostThreeAttempts ==
    \A d \in Ids :
        Placed(d) =>
            LET log == h[d].log
            IN  /\ h[d].gets <= 3
                /\ Cardinality(Updates(d)) <= 3
                /\ \A k \in 2..Len(log) :
                     log[k].op = "GetItem" =>
                        log[k - 1] = [op |-> "Update", err |-> "optimistic lock failed"]
                /\ \A k \in Updates(d) :
                     log[k].err = "" => k = Len(log) /\ Returned(d) /\ h[d].ret = "ok"
                /\ Cardinality(Conflicts(d)) = 3 =>
                     /\ Returned(d)
                     /\ h[d].ret = "err"
                     /\ h[d].acks = 0
                     /\ h[d].pc = "done" => h[d].nacks = 1

\* three conflicts in a row: the delivery is rejected after the third
C13_Witness ==
    \E d \in Ids :
        /\ Placed(d)
        /\ Cardinality(Conflicts(d)) = 3
        /\ h[d].gets = 3
        /\ h[d].pc = "done"
        /\ h[d].nacks = 1

\* C14: in bid.placed handling a persistence error that is no conflict, and
\* any error of GetItem, ends the invocation with an error: it is the last
\* repository call of the delivery.
C14_OtherErrorsNotRetried ==
    \A d \in Ids :
        Placed(d) =>
            \A k \in 1..Len(h[d].log) :
                LET c == h[d].log[k]
                IN  (c.err # "" /\ (c.op = "GetItem" \/ c.err # "optimistic lock failed")) =>
                        /\ k = Len(h[d].log)
                        /\ Returned(d)
                        /\ h[d].ret = "err"

\* an Update failing with a plain error after a retried conflict, and rejected
C14_Witness ==
    \E d \in Ids :
        /\ Placed(d)
        /\ Len(h[d].log) = 4
        /\ h[d].log[2] = [op |-> "Update", err |-> "optimistic lock failed"]
        /\ h[d].log[4] = [op |-> "Update", err |-> "error"]
        /\ h[d].pc = "done"
        /\ h[d].nacks = 1

\* C15: after a successful bid.won the persisted item has status sold, the
\* payload's buyer id as buyerId and the payload's final amount as both
\* currentPrice and endPrice, all from the one write.
C15_BidWonPersisted ==
    \A d \in Ids :
        (~msgs[d].malformed /\ msgs[d].event = "bid.won" /\ h[d].writes > 0) =>
            LET row == h[d].written
                final == NewFromString(msgs[d].FinalAmount).val
            IN  /\ row.Status = "sold"
                /\ row.BuyerID = msgs[d].BuyerID
                /\ row.CurrentPrice = final
                /\ row.EndPrice = Some(final)

\* C16: an event that is neither bid.placed nor bid.won makes the handler
\* return success without a repository read or write; the delivery is
\* acknowledged, never rejected.
C16_UnknownEventAcked ==
    \A d \in Ids :
        (msgs[d] # NoMsg /\ ~msgs[d].malformed /\ h[d].calls > 0
           /\ msgs[d].event \notin {"bid.placed", "bid.won"}) =>
            /\ Returned(d)
            /\ h[d].ret = "ok"
            /\ h[d].log = <<>>
            /\ h[d].gets = 0
            /\ h[d].writes = 0
            /\ h[d].nacks = 0
            /\ h[d].pc = "done" => h[d].acks = 1
            /\ ~InQueue(dlqName, d)

\* a bid.cancelled event was acknowledged and the item is as it was created
C16_Witness ==
    \E d \in Ids :
        /\ msgs[d].event = "bid.cancelled"
        /\ h[d].pc = "done"
        /\ h[d].acks = 1
        /\ items["I1"].CurrentPrice = 100
        /\ items["I1"].Status = "active"

\* C17: a bid.placed without item id, without amount, or with an amount that
\* is no decimal number makes the handler return an error with no Update and
\* no retry; the delivery is rejected and the item is unchanged.
C17_BadPayloadRejected ==
    \A d \in Ids :
        (Placed(d) /\ h[d].calls > 0
           /\ (msgs[d].ItemID = "" \/ msgs[d].Amount = "" \/ ~NewFromString(msgs[d].Amount).ok)) =>
            /\ Updates(d) = {}
            /\ h[d].writes = 0
            /\ h[d].gets <= 1
            /\ h[d].attempt <= 1
            /\ h[d].acks = 0
            /\ Returned(d) => h[d].ret = "err"
            /\ h[d].pc = "done" => h[d].nacks = 1
            /\ \A id \in ItemIDs :
                 /\ items[id].CurrentPrice = 100
                 /\ items[id].EndDate = 20
                 /\ items[id].Status = "active"

\* the amount "abc": the item was read, the amount refused, the delivery rejected
C17_Witness ==
    \E d \in Ids :
        /\ Placed(d)
        /\ msgs[d].Amount = "abc"
        /\ h[d].log = <<[op |-> "GetItem", err |-> ""]>>
        /\ h[d].pc = "done"
        /\ h[d].nacks = 1
        /\ InQueue(dlqName, d)

\* C18: a handler invocation that outlives the 30 s processing timeout has its
\* delivery rejected (Nack, requeue = false) and frees the intake loop; no
\* invocation keeps its delivery unsettled forever.
C18_TimeoutRejects ==
    \A d \in Ids :
        /\ h[d].expired ~>
              (h[d].pc = "done" /\ h[d].nacks = 1 /\ h[d].requeued = 0 /\ h[d].acks = 0
                 /\ CanTake(h[d].owner))
        /\ (h[d].pc \in Running) ~> (h[d].pc = "done")

\* the timeout expired before the Update of the first attempt: the call failed
\* on the done context and the delivery went to the dead-letter queue
C18_Witness ==
    \E d \in Ids :
        /\ h[d].expired
        /\ h[d].log = <<[op |-> "GetItem", err |-> ""],
                        [op |-> "Update", err |-> "context deadline exceeded"]>>
        /\ h[d].pc = "done"
        /\ h[d].nacks = 1
        /\ InQueue(dlqName, d)

\* C19: with workerPoolSize >= 2 and fewer running handlers than that, the
\* intake loop takes the next delivery of its stream without waiting for a
\* running handler to return.
C19_IntakeDoesNotWait ==
    \A r \in Replicas :
        (/\ config.WorkerPoolSize >= 2
         /\ rpc[r].pc = "consuming"
         /\ stream[r] # <<>>
         /\ Cardinality(InFlight(r)) < config.WorkerPoolSize) => ENABLED Receive(r)

\* C20: once NewConsumer returned, the broker holds the durable topic exchange,
\* the durable topic exchange exchange + ".dlx", the durable work queue whose
\* dead-letter exchange is that DLX, the durable queue queueName + ".dlq", and
\* the DLQ is bound to the DLX by exactly the keys that bind the work queue
\* to the exchange.
C20_TopologyDeclared ==
    (\E r \in Replicas : rpc[r].pc # "new") =>
        /\ [name |-> "auction.bid", kind |-> "topic", durable |-> TRUE] \in broker.exchanges
        /\ [name |-> "auction.bid.dlx", kind |-> "topic", durable |-> TRUE] \in broker.exchanges
        /\ \A q \in broker.queues :
             q.name = "auction.bid.all.v1" => q.durable /\ q.dlx = "auction.bid.dlx"
        /\ \E q \in broker.queues : q.name = "auction.bid.all.v1"
        /\ \E q \in broker.queues : q.name = "auction.bid.all.v1.dlq" /\ q.durable
        /\ LET keys(q, e) == {bd.key : bd \in {x \in broker.bindings :
                                                 x.queue = q /\ x.exchange = e}}
           IN  /\ keys("auction.bid.all.v1.dlq", "auction.bid.dlx")
                    = keys("auction.bid.all.v1", "auction.bid")
               /\ keys("auction.bid.all.v1", "auction.bid") = {<<"bid", "*", "v1">>}

\* the first replica declared the topology, the second has not started yet
C20_Witness ==
    /\ rpc["w1"].pc = "consuming"
    /\ rpc["w2"].pc = "new"
    /\ Cardinality(broker.queues) = 2
    /\ Cardinality(broker.bindings) = 2

\* C21: declaring the topology is idempotent: NewConsumer with the same
\* configuration against a broker that already holds the topology returns a
\* consumer and leaves exchanges, queues, queue arguments and bindings as
\* they are.
C21_TopologyIdempotent ==
    [][\A r \in Replicas :
         (NewConsumer(r) /\ \E o \in Replicas : rpc[o].pc = "consuming") =>
            /\ broker' = broker
            /\ rpc'[r].pc = "consuming"
            /\ rpc'[r].err = ""]_vars

\* both replicas ran NewConsumer, and the broker holds one of each declaration
C21_Witness ==
    /\ \A r \in Replicas : rpc[r].pc = "consuming"
    /\ Cardinality(broker.exchanges) = 2
    /\ Cardinality(broker.queues) = 2
    /\ Cardinality(broker.bindings) = 2

\* the declarations a NewConsumer call has made when it completed n steps
Holds(b, n) ==
    /\ (\E e \in b.exchanges : e.name = "auction.bid") <=> n >= 2
    /\ (\E e \in b.exchanges : e.name = "auction.bid.dlx") <=> n >= 3
    /\ (\E q \in b.queues : q.name = "auction.bid.all.v1") <=> n >= 4
    /\ (\E q \in b.queues : q.name = "auction.bid.all.v1.dlq") <=> n >= 5
    /\ (\E x \in b.bindings : x.queue = "auction.bid.all.v1.dlq") <=> n >= 6
    /\ (\E x \in b.bindings : x.queue = "auction.bid.all.v1") <=> n >= 7

\* C30: a failing topology step makes NewConsumer return the error of that
\* step at once: the later steps are not made, no Consumer is returned, and
\* no delivery is consumed by a process whose NewConsumer failed.
C30_StartupFailureIsFatal ==
    /\ \A r \in Replicas :
         /\ rpc[r].pc = "failed" =>
              /\ rpc[r].step < 7
              /\ rpc[r].err = TopologySteps[rpc[r].step + 1]
              /\ stream[r] = <<>>
              /\ \A d \in Ids : h[d].owner # r
         /\ rpc[r].pc = "consuming" => rpc[r].step = 7 /\ Holds(broker, 7)
    /\ \E r \in Replicas :
         /\ Holds(broker, rpc[r].step)
         /\ \A o \in Replicas : rpc[o].step <= rpc[r].step

\* the first process failed to declare the dead-letter queue and left the
\* work queue unbound; the second one declared the rest and handled a bid
C30_Witness ==
    /\ rpc["w1"].pc = "failed"
    /\ rpc["w1"].err = "dlq"
    /\ rpc["w2"].pc = "consuming"
    /\ \E d \in Ids : h[d].owner = "w2" /\ h[d].acks = 1

\* C22: the shutdown signal does not interrupt a handler invocation that is
\* running: cancelling the governing context leaves the context of the
\* in-flight handler as it was.
C22_ShutdownSparesHandler ==
    [][\A r \in Replicas : \A d \in Ids :
         (Shutdown(r) /\ h[d].owner = r /\ h[d].pc \in {"get", "update"}) =>
            (CtxDone(h[d]))' = CtxDone(h[d])]_vars

\* C28: a delivery that waits in the channel while the dispatcher is busy is
\* neither dropped nor rejected while it waits, and is eventually handed to
\* the handler and settled.
C28_BackpressureLosesNothing ==
    /\ [](\A d \in Ids : InStream(d) => h[d].acks = 0 /\ h[d].nacks = 0 /\ h[d].calls = 0)
    /\ \A d \in Ids :
         InStream(d) ~>
            (/\ h[d].pc = "done"
             /\ h[d].acks + h[d].nacks = 1
             /\ ~msgs[d].malformed => h[d].calls = 1)

\* both deliveries of the burst were handled by replica "w1", the second one
\* after it had waited for a handler that wrote the item
C28_Witness ==
    /\ h[1].owner = "w1" /\ h[1].pc = "done" /\ h[1].writes = 1
    /\ h[2].owner = "w1" /\ h[2].pc = "done" /\ h[2].calls = 1 /\ h[2].acks = 1

Outcome(row) == <<row.CurrentPrice, row.EndDate, row.Status, row.BuyerID, row.EndPrice>>

\* C23: the handler is idempotent: handling the same bid.placed or bid.won
\* event twice in succession, with no other write in between, persists the
\* same currentPrice, endDate, status, buyerId and endPrice as handling it once.
C23_HandlerIdempotent ==
    \A d1 \in Ids, d2 \in Ids :
        (/\ d1 # d2
         /\ msgs[d1] = msgs[d2]
         /\ h[d1].writes = 1 /\ h[d1].readSeq = 0 /\ ~h[d1].stale
         /\ h[d2].writes = 1 /\ h[d2].readSeq = 1 /\ ~h[d2].stale) =>
            Outcome(h[d2].written) = Outcome(h[d1].written)

\* C24: the example event {itemId: I1, amount: 150.00, timestamp: 09:57}
\* handled against an item that ends at 10:00 with threshold 10 and the
\* default duration succeeds and leaves currentPrice 150.00 and endDate 10:05.
C24_ExampleBidExtends ==
    \A d \in Ids :
        (/\ msgs[d] = ExampleBid
         /\ h[d].pc = "done"
         /\ items["I1"].ExtensionThresholdMinutes = Some(10)
         /\ items["I1"].ExtensionDurationMinutes = Nil) =>
            /\ h[d].acks = 1
            /\ items["I1"].CurrentPrice = 150
            /\ Some(items["I1"].EndDate) = ParseTime("2024-01-20T10:05:00Z")

\* C25: every attempt of the bid.placed loop works on the row it read itself:
\* what a successful attempt wrote is the bid applied to the row read in that
\* attempt, version and status included.
C25_FreshReadPerAttempt ==
    \A d \in Ids :
        (Placed(d) /\ h[d].writes > 0) =>
            LET row == h[d].written
                read == h[d].fresh
                left == read.EndDate - BidTime(msgs[d])
                thr == IF read.ExtensionThresholdMinutes.set
                       THEN read.ExtensionThresholdMinutes.val ELSE 10
                dur == IF read.ExtensionDurationMinutes.set
                       THEN read.ExtensionDurationMinutes.val ELSE 5
            IN  /\ row.EndDate = IF 0 < left /\ left <= thr
                                 THEN read.EndDate + dur ELSE read.EndDate
                /\ row.Status = read.Status
                /\ row.EndPrice = read.EndPrice
                /\ h[d].item.Version = read.Version
                /\ h[d].originalEndDate = read.EndDate

\* a second attempt after a conflict read the row another delivery had written
\* in between, and wrote
C25_Witness ==
    \E d \in Ids :
        /\ Placed(d)
        /\ h[d].attempt = 2
        /\ h[d].writes = 1
        /\ h[d].fresh.CurrentPrice # 100
        /\ h[d].written.CurrentPrice # h[d].fresh.CurrentPrice

\* C26: bid.won handling issues exactly one GetItem and at most one Update;
\* when that Update fails, with a conflict or otherwise, the handler returns
\* the error without another attempt and the delivery is rejected.
C26_BidWonSingleAttempt ==
    \A d \in Ids :
        (~msgs[d].malformed /\ msgs[d].event = "bid.won" /\ h[d].calls > 0) =>
            /\ h[d].gets <= 1
            /\ Cardinality(Updates(d)) <= 1
            /\ h[d].attempt <= 1
            /\ (Returned(d) /\ msgs[d].ItemID # "" /\ msgs[d].BuyerID # ""
                  /\ msgs[d].FinalAmount # "") => h[d].gets = 1
            /\ \A k \in Updates(d) :
                 h[d].log[k].err # "" =>
                    /\ k = Len(h[d].log)
                    /\ Returned(d)
                    /\ h[d].ret = "err"
                    /\ h[d].acks = 0
                    /\ h[d].pc = "done" => h[d].nacks = 1

\* the Update of a bid.won reported a conflict: one read, one write, rejected
C26_Witness ==
    \E d \in Ids :
        /\ msgs[d].event = "bid.won"
        /\ h[d].log = <<[op |-> "GetItem", err |-> ""],
                        [op |-> "Update", err |-> "optimistic lock failed"]>>
        /\ h[d].pc = "done"
        /\ h[d].nacks = 1

\* C27: a slot is taken when a handler invocation starts and given back when
\* it finishes: whenever a consumer handles no delivery, its free slots are
\* workerPoolSize.
C27_NoSlotLeak ==
    \A r \in Replicas :
        (rpc[r].pc = "consuming" /\ \A d \in Ids : ~(h[d].owner = r /\ h[d].pc \in Running)) =>
            FreeSlots(r) = config.WorkerPoolSize

\* C31: NewConsumer dials at most 5 times and waits (attempt number) seconds
\* after each failed dial; the first successful dial ends the retries, and
\* after 5 failed dials NewConsumer returns an error and declares nothing.
C31_DialRetries ==
    \A r \in Replicas :
        /\ rpc[r].dials <= 5
        /\ rpc[r].waits \in {<<>>, <<1>>, <<1, 2>>, <<1, 2, 3>>, <<1, 2, 3, 4>>,
                             <<1, 2, 3, 4, 5>>}
        /\ rpc[r].pc = "consuming" => rpc[r].dials = Len(rpc[r].waits) + 1
        /\ rpc[r].pc = "failed" =>
             /\ rpc[r].dials = 5
             /\ Len(rpc[r].waits) = 5
             /\ rpc[r].err = "dial"
             /\ rpc[r].step = 0
             /\ stream[r] = <<>>
        /\ (\A o \in Replicas : rpc[o].pc \in {"new", "failed"}) => broker = NoBroker

\* one process gave up after five dials and left the broker as it was, the
\* other one connected with its fifth dial
C31_Witness ==
    /\ rpc["w1"].pc = "failed"
    /\ rpc["w1"].waits = <<1, 2, 3, 4, 5>>
    /\ rpc["w2"].pc = "consuming"
    /\ rpc["w2"].dials = 5
    /\ rpc["w2"].waits = <<1, 2, 3, 4>>
    /\ Cardinality(broker.queues) = 2

\* deliveries the broker handed to replica r that are neither acknowledged
\* nor rejected yet
Outstanding(r) ==
    {d \in Ids : \/ \E k \in 1..Len(stream[r]) : stream[r][k] = d
                 \/ h[d].owner = r /\ h[d].acks = 0 /\ h[d].nacks = 0}

\* the prefetch in force for a consumer configured with n
PrefetchLimit(n) == IF n = 0 THEN 10 ELSE n

C32_HeldBack ==
    /\ config.PrefetchCount = 1
    /\ rpc["w1"].pc = "consuming" /\ rpc["w2"].pc = "new"
    /\ h[1].owner = "w1" /\ h[1].pc = "update"
    /\ queues[QueueName] = <<2>>
    /\ ~ENABLED Deliver("w1")

BidAmount(m) == IF m.Amount = "120" THEN 120 ELSE IF m.Amount = "200" THEN 200 ELSE 150

\* C33: a bid.placed that is processed successfully sets the persisted
\* currentPrice to exactly its amount, whatever the price was before (no
\* check that the bid is higher), so the stored price is the amount of the
\* last bid persisted, which may be lower than an earlier one.
C33_PriceIsLastBid ==
    \A d \in Ids :
        (Placed(d) /\ h[d].writes > 0) =>
           /\ h[d].written.CurrentPrice = BidAmount(msgs[d])
           /\ h[d].writeNo = writeSeq["I1"] =>
                 items["I1"].CurrentPrice = BidAmount(msgs[d])

\* the bid of 120 was persisted after the bid of 150, on top of it: the stored
\* price went down from 150 to 120
C33_Witness ==
    /\ Placed(1) /\ msgs[1].Amount = "150" /\ h[1].writeNo = 1
    /\ Placed(2) /\ msgs[2].Amount = "120" /\ h[2].writeNo = 2
    /\ h[2].fresh.CurrentPrice = 150
    /\ h[2].pc = "done" /\ h[2].acks = 1
    /\ items["I1"].CurrentPrice = 120

\* C35: once a bid.won was processed successfully, a concurrent bid.placed
\* that read the item before the sale cannot undo it: its stale write fails
\* or leaves status sold and currentPrice equal to endPrice.
C35_SaleNotOverwritten ==
    \A w \in Ids, b \in Ids :
        ( /\ ~msgs[w].malformed /\ msgs[w].event = "bid.won"
          /\ h[w].writes = 1
          /\ Placed(b) /\ h[b].writes = 1
          /\ h[b].readSeq < h[w].writeNo
          /\ h[b].writeNo > h[w].writeNo ) =>
             /\ items["I1"].Status = "sold"
             /\ Some(items["I1"].CurrentPrice) = items["I1"].EndPrice

\* what an override of o minutes yields when the default is def
Effective(o, def) == IF o = Nil \/ o.val <= 0 THEN def ELSE o.val

UpdatesDone(d) == {k \in Updates(d) : h[d].log[k].err = ""}

\* C36: one delivery causes at most one successful persisted update, and a
\* delivery that is rejected causes none: when the handler returns an error,
\* nothing that invocation wrote is in the table.
C36_AtMostOneWrite ==
    \A d \in Ids :
        /\ h[d].writes <= 1
        /\ Cardinality(UpdatesDone(d)) = h[d].writes
        /\ writeSeq["I1"] <= 1
        /\ (h[d].ret = "err" \/ h[d].nacks > 0) =>
              /\ h[d].writes = 0
              /\ writeSeq["I1"] = 0
              /\ Outcome(items["I1"]) = <<100, 20, "active", NoBuyer, Nil>>

\* a bid whose three Update attempts all failed with a conflict was rejected
\* and left the item as it was
C36_Witness ==
    /\ Placed(1) /\ h[1].pc = "done" /\ h[1].nacks = 1
    /\ Cardinality(Updates(1)) = 3
    /\ h[1].writes = 0
    /\ items["I1"].CurrentPrice = 100

\* a bid persisted by its second attempt was written once and acknowledged
C36_WrittenOnce ==
    /\ Placed(1) /\ h[1].pc = "done" /\ h[1].acks = 1
    /\ Cardinality(Updates(1)) = 2
    /\ h[1].writes = 1
    /\ items["I1"].CurrentPrice = 150

\* C37: one bid.placed delivery moves the item's endDate by at most one
\* extension duration, however many times the handler retries; the
\* extensions of retries never add up.
C37_OneExtensionPerDelivery ==
    LET dur == Effective(items["I1"].ExtensionDurationMinutes, 5)
    IN  /\ items["I1"].EndDate \in {20, 20 + dur}
        /\ \A d \in Ids :
             (Placed(d) /\ h[d].pc = "update") => h[d].item.EndDate \in {20, 20 + dur}
        /\ \A d \in Ids :
             (Placed(d) /\ h[d].writes > 0) =>
                h[d].written.EndDate - h[d].originalEndDate \in {0, dur}

\* a bid inside the window was persisted by its third attempt, after two
\* conflicts, with the end date extended by the default 5 minutes, once
C37_Witness ==
    /\ Placed(1) /\ h[1].attempt = 3 /\ h[1].writes = 1
    /\ Cardinality(Conflicts(1)) = 2
    /\ items["I1"].ExtensionDurationMinutes = Nil
    /\ h[1].written.EndDate = 25
    /\ items["I1"].EndDate = 25

====
